---- MODULE Spec2Model ----
(***************************************************************************)
(* Model of the crypto-dca-simulator core: the LocalStorage cache manager  *)
(* (services/cacheManager) and the DCA calculator (services/dcaCalculator  *)
(* with utils/dateHelpers).                                                *)
(*                                                                         *)
(* The storage medium is a finite map from key strings to texts.  A text   *)
(* is a record that carries what JSON.parse can read from it and its       *)
(* length in UTF-16 code units; lengths are computed as JSON.stringify     *)
(* produces them, so sizes, thresholds and the medium's quota are the real *)
(* numbers of the program.                                                 *)
(***************************************************************************)
EXTENDS Integers, Sequences, FiniteSets, TLC

(***************************************************************************)
(* Program constants of cacheManager.js                                    *)
(***************************************************************************)
CACHE_PREFIX == "crypto-dca-cache:"
DEFAULT_TTL_MS == 86400000
MAX_CACHE_SIZE_BYTES == 5242880
\* EVICTION_THRESHOLD = 0.8, kept as the fraction 8/10 (5242880 * 0.8 is the
\* integer 4194304 in IEEE doubles as well)
EVICTION_THRESHOLD_NUM == 8
EVICTION_THRESHOLD_DEN == 10

(***************************************************************************)
(* Bounds of the model                                                     *)
(***************************************************************************)
\* the clock runs over 0 .. MaxNow (milliseconds since the page was opened)
MaxNow == 1
\* the short time-to-live, in milliseconds, used beside DEFAULT_TTL_MS
ShortTtl == 0
\* number of 'x' characters that pad the large string value
BigPad == 1000000
\* length of the text another application already keeps in the medium when
\* the medium is nearly full
ForeignFill == 2000000
\* quota, in code units, of a medium that holds more than the cache's capacity
\* (jsdom's default storageQuota)
RoomyQuota == 5000000
\* the longest range, in days, a daily schedule is generated over
MaxDailySpan == 16
\* steps of the adapter's clock
MaxTicks == 4
\* adapter calls made in all
MaxCalls == 3
\* the longest a fetch takes to settle, in steps of the clock
MaxLatency == 1

\* priceApi.ts
RATE_LIMIT_DELAY_MS == 1200
MAX_RETRIES == 3
RETRY_DELAY_MS == 2000
HTTP_STATUS_TOO_MANY_REQUESTS == 429
FIVE_MINUTES_MS == 300000

\* the adapter calls the model makes, and the cache key of each:
\* `historical:${assetPair}:${fromTimestamp}:${toTimestamp}` and
\* `current:${assetPair}`
FromTimestamp == 1706140800
ToTimestamp == 1707350400
ApiFunctions == {"getHistoricalPrices", "getCurrentPrice"}
cacheKeyOf(fn) ==
  IF fn = "getHistoricalPrices"
  THEN "historical:" \o "BTC-USD" \o ":" \o ToString(FromTimestamp) \o ":" \o ToString(ToTimestamp)
  ELSE "current:" \o "BTC-USD"
ApiKeys == {cacheKeyOf(fn) : fn \in ApiFunctions}

LogicalKeys == {"k1", "k2", "k3"}
ForeignKey == "other-key"
\* The media the cache starts on: one of exactly the cache's capacity (5 MB
\* of UTF-16), the same nearly filled by another application's text, and a
\* larger one.  'other-value' has 11 characters.
Media == {[quota |-> MAX_CACHE_SIZE_BYTES \div 2, foreign |-> Len("other-value")],
          [quota |-> MAX_CACHE_SIZE_BYTES \div 2, foreign |-> ForeignFill],
          [quota |-> RoomyQuota, foreign |-> Len("other-value")]}

(***************************************************************************)
(* JavaScript values handed to set, and JSON texts                         *)
(***************************************************************************)
Undefined == [t |-> "undefined", s |-> "", pad |-> 0]
Circular == [t |-> "circular", s |-> "", pad |-> 0]
StrSmall == [t |-> "string", s |-> "value", pad |-> 0]
\* the string "x...x" of BigPad characters after a one-letter head
StrBig == [t |-> "string", s |-> "b", pad |-> BigPad]
Values == {StrSmall, StrBig, Circular}

\* the calls of set the model makes: every value with the default
\* time-to-live, and the small one also with the short time-to-live
SetCalls == {[value |-> StrSmall, ttlMs |-> DEFAULT_TTL_MS],
             [value |-> StrSmall, ttlMs |-> ShortTtl],
             [value |-> StrBig, ttlMs |-> DEFAULT_TTL_MS],
             [value |-> Circular, ttlMs |-> DEFAULT_TTL_MS]}
\* the key another script of the page writes text under that is not JSON
CorruptKeys == {"k3"}

\* JSON.stringify throws a TypeError on a circular structure
StringifyThrows(v) == v.t = "circular"
\* values that JSON.stringify writes and JSON.parse reads back
JSONSerializable(v) == v.t \in {"string", "json"}

\* length of JSON.stringify(v) for a value that is written
ValueJsonLen(v) ==
  IF v.t = "string" THEN Len(v.s) + v.pad + 2
  ELSE IF v.t = "json" THEN Len(v.s)
  ELSE 0

\* digits of Date.now() and of Date.now() + ttl: 13 for any present-day clock
EpochDigits == 13

\* JSON.stringify({value, timestamp, expiresAt}): a property whose value is
\* undefined is left out of the text
Stringify(data) ==
  IF data.value.t = "undefined"
  THEN [kind |-> "json", hasValue |-> FALSE, value |-> Undefined,
        timestamp |-> data.timestamp, expiresAt |-> data.expiresAt,
        len |-> 1 + 12 + EpochDigits + 13 + EpochDigits + 1]
  ELSE [kind |-> "json", hasValue |-> TRUE, value |-> data.value,
        timestamp |-> data.timestamp, expiresAt |-> data.expiresAt,
        len |-> 9 + ValueJsonLen(data.value) + 13 + EpochDigits + 13 + EpochDigits + 1]

\* the text 'not-json' of the tests, and any other text JSON.parse rejects
Garbage(n) == [kind |-> "garbage", hasValue |-> FALSE, value |-> Undefined,
               timestamp |-> 0, expiresAt |-> 0, len |-> n]
NotJson == Garbage(8)

\* JSON.parse: throws a SyntaxError on a text that is not JSON
ParseThrows(text) == text.kind # "json"
Parse(text) == [value |-> IF text.hasValue THEN text.value ELSE Undefined,
                timestamp |-> text.timestamp, expiresAt |-> text.expiresAt]

VARIABLES
  storage,   \* localStorage: a function from the keys present to their texts
  now,       \* Date.now()
  quota,     \* what the medium holds, in code units, over all its keys
  lastOp,    \* the last cache call: its arguments, what it returned, and
             \* what its eviction runs removed
  setLog     \* for each key, the call of set that wrote its stored entry

VARIABLES
  tz,            \* the local time zone: hours east of UTC
  dcaPc,         \* where the call of calculateDCA stands
  dcaConfig,     \* its config
  purchaseDates, \* the generated dates, as local days
  purchases,     \* what calculatePurchases returned
  adapterLog,    \* the calls made to priceApi, oldest first
  historical,    \* what getHistoricalPrices resolved to, once it has
  rejection,     \* the error an adapter call rejected with, "" while none has
  dcaOutcome     \* what the call returned, or the error it failed with

VARIABLES
  calls,         \* two calls of calculateDCA in flight together: where each
                 \* stands, its argument, what its adapter calls answered
                 \* and what it returned
  frames         \* the local variables of each of the two calls

VARIABLES
  lastRequestTime, \* the module-level variable of priceApi.ts
  requests,        \* the adapter call of each caller
  fetchGap,        \* the time between the last two calls of fetch
  overlapped,      \* whether two adapter calls have been in flight together
  apiWrites        \* for each adapter key, the cache.set that wrote its entry

cacheVars == <<storage, now, quota, lastOp, setLog>>
dcaVars == <<tz, dcaPc, dcaConfig, purchaseDates, purchases, adapterLog, historical, rejection,
            dcaOutcome>>
vars == <<storage, now, quota, lastOp, setLog, tz, dcaPc, dcaConfig, purchaseDates, purchases,
          adapterLog, historical, rejection, dcaOutcome, calls, frames,
          lastRequestTime, requests, fetchGap, overlapped, apiWrites>>
engineVars == <<calls, frames>>
\* what neither the cache alone nor one call of calculateDCA touches
apiVars == <<lastRequestTime, requests, fetchGap, overlapped, apiWrites>>
otherVars == <<engineVars, apiVars>>

(***************************************************************************)
(* The storage medium (window.localStorage)                                *)
(***************************************************************************)
\* key.startsWith(prefix), over the key strings of the model
startsWith(key, prefix) == \E name \in LogicalKeys \cup ApiKeys \cup {""} : key = prefix \o name

RECURSIVE SumChars(_, _)
SumChars(st, keys) ==
  IF keys = {} THEN 0
  ELSE LET k == CHOOSE x \in keys : TRUE
       IN Len(k) + st[k].len + SumChars(st, keys \ {k})

\* code units the medium holds
MediumUsed(st) == SumChars(st, DOMAIN st)

removeItem(st, key) == [k \in (DOMAIN st) \ {key} |-> st[k]]

\* Seeded fault: a write over an entry leaves the timestamp the entry had
putItem_torn(st, key, text) ==
  [k \in (DOMAIN st) \cup {key} |->
     IF k # key THEN st[k]
     ELSE IF key \in DOMAIN st THEN [text EXCEPT !.timestamp = st[key].timestamp]
     ELSE text]

putItem(st, key, text) == [k \in (DOMAIN st) \cup {key} |-> IF k = key THEN text ELSE st[k]]

\* localStorage.setItem: a DOMException named QuotaExceededError, and no
\* change, when the medium would hold more than its quota
setItem(st, q, key, text) ==
  IF MediumUsed(putItem(st, key, text)) > q
  THEN [throws |-> TRUE, st |-> st]
  ELSE [throws |-> FALSE, st |-> putItem(st, key, text)]

(***************************************************************************)
(* cacheManager.js                                                         *)
(***************************************************************************)
\* Seeded fault: the key is used as it is given
getCacheKey_bare(key) == key

getCacheKey(key) == CACHE_PREFIX \o key

\* keys of the medium that carry the cache's prefix
PrefixedKeys(st) == {k \in DOMAIN st : startsWith(k, CACHE_PREFIX)}

getCacheSize(st) == 2 * SumChars(st, PrefixedKeys(st))

\* the entries in the medium's enumeration order keyOrder; an entry whose
\* text does not parse is skipped
getCacheEntries(st, keyOrder) ==
  LET listed == SelectSeq(keyOrder, LAMBDA k : k \in PrefixedKeys(st) /\ ~ParseThrows(st[k]))
  IN [i \in 1..Len(listed) |-> [key |-> listed[i], timestamp |-> Parse(st[listed[i]]).timestamp]]

\* Seeded fault: the comparator reversed, (a, b) => b.timestamp - a.timestamp
RECURSIVE SortByTimestamp_newestFirst(_)
SortByTimestamp_newestFirst(entries) ==
  IF entries = <<>> THEN <<>>
  ELSE LET rest == SortByTimestamp_newestFirst(SubSeq(entries, 1, Len(entries) - 1))
           e == entries[Len(entries)]
           after == {i \in 1..Len(rest) : rest[i].timestamp < e.timestamp}
           at == IF after = {} THEN Len(rest) + 1 ELSE CHOOSE i \in after : \A j \in after : i <= j
       IN SubSeq(rest, 1, at - 1) \o <<e>> \o SubSeq(rest, at, Len(rest))

\* entries.sort((a, b) => a.timestamp - b.timestamp): a stable sort
RECURSIVE InsertByTimestamp(_, _)
InsertByTimestamp(sorted, e) ==
  IF sorted = <<>> THEN <<e>>
  ELSE IF sorted[Len(sorted)].timestamp <= e.timestamp THEN Append(sorted, e)
  ELSE Append(InsertByTimestamp(SubSeq(sorted, 1, Len(sorted) - 1), e), sorted[Len(sorted)])

RECURSIVE SortByTimestamp(_)
SortByTimestamp(entries) ==
  IF entries = <<>> THEN <<>>
  ELSE InsertByTimestamp(SortByTimestamp(SubSeq(entries, 1, Len(entries) - 1)), entries[Len(entries)])

\* the loop of evictLRU over the sorted entries from index i on; removed
\* lists what was removed, with the size found before each removal
RECURSIVE EvictLoop(_, _, _, _, _, _)
EvictLoop(st, entries, i, targetNum, targetDen, removed) ==
  IF i > Len(entries) \/ getCacheSize(st) * targetDen <= targetNum
  THEN [st |-> st, removed |-> removed]
  ELSE EvictLoop(removeItem(st, entries[i].key), entries, i + 1, targetNum, targetDen,
                 Append(removed, [key |-> entries[i].key, timestamp |-> entries[i].timestamp,
                                  sizeBefore |-> getCacheSize(st)]))

\* evictLRU(targetSize) with targetSize = targetNum / targetDen
evictLRU(st, targetNum, targetDen, keyOrder) ==
  EvictLoop(st, SortByTimestamp(getCacheEntries(st, keyOrder)), 1, targetNum, targetDen, <<>>)

\* what a call returned
RetBool(b) == [kind |-> "boolean", val |-> b]
RetValue(v) == [kind |-> "value", val |-> v]
RetNumber(n) == [kind |-> "number", val |-> n]
RetStats(r) == [kind |-> "stats", val |-> r]
RetNull == [kind |-> "null", val |-> "null"]
\* an exception that leaves a block or a call, by its name
Throw(name) == [kind |-> "throw", val |-> name]

\* survivors of an eviction run: the timestamps of the entries it could
\* have removed and did not
ReadableTimestamps(st) ==
  {Parse(st[k]).timestamp : k \in {x \in PrefixedKeys(st) : ~ParseThrows(st[x])}}

\* Seeded fault: the threshold divides the capacity,
\* currentSize >= MAX_CACHE_SIZE_BYTES / EVICTION_THRESHOLD
needsEviction_divides(currentSize) ==
  currentSize * EVICTION_THRESHOLD_NUM >= MAX_CACHE_SIZE_BYTES * EVICTION_THRESHOLD_DEN

\* if (currentSize >= MAX_CACHE_SIZE_BYTES * EVICTION_THRESHOLD)
needsEviction(currentSize) ==
  currentSize * EVICTION_THRESHOLD_DEN >= MAX_CACHE_SIZE_BYTES * EVICTION_THRESHOLD_NUM

\* the default targetSize of evictLRU, MAX_CACHE_SIZE_BYTES * EVICTION_THRESHOLD,
\* as a fraction
defaultTarget == [num |-> MAX_CACHE_SIZE_BYTES * EVICTION_THRESHOLD_NUM, den |-> EVICTION_THRESHOLD_DEN]

\* Seeded fault: the eviction after a rejected write keeps the default target
quotaTarget_default == defaultTarget

\* the targetSize of the eviction after a rejected write, MAX_CACHE_SIZE_BYTES / 2
quotaTarget == [num |-> MAX_CACHE_SIZE_BYTES, den |-> 2]

\* the try block of set: the eviction before the write, JSON.stringify and
\* the first localStorage.setItem.  ret is what the block returned, or the
\* exception that left it.
setTry(st, t, q, key, value, ttlMs, keyOrder) ==
  LET cacheKey == getCacheKey(key)
      data == [value |-> value, timestamp |-> t, expiresAt |-> t + ttlMs]
      currentSize == getCacheSize(st)
      pre == IF needsEviction(currentSize)
             THEN evictLRU(st, defaultTarget.num, defaultTarget.den, keyOrder)
             ELSE [st |-> st, removed |-> <<>>]
      call == [sizeAtCall |-> currentSize, preEvict |-> pre.removed,
               preSurvivors |-> ReadableTimestamps(pre.st),
               sizeAtWrite |-> getCacheSize(pre.st)]
  IN IF StringifyThrows(value)
     THEN call @@ [st |-> pre.st, ret |-> Throw("TypeError"), attempts |-> 0]
     ELSE LET first == setItem(pre.st, q, cacheKey, Stringify(data))
          IN IF first.throws
             THEN call @@ [st |-> pre.st, ret |-> Throw("QuotaExceededError"), attempts |-> 1]
             ELSE call @@ [st |-> first.st, ret |-> RetBool(TRUE), attempts |-> 1]

\* Seeded fault: true is returned whether or not the second write was accepted
retryReturn_true(throws) == RetBool(TRUE)

\* the return of the inner try / catch around the second write
retryReturn(throws) == RetBool(~throws)

\* set(key, value, ttlMs) at time t on the medium st of quota q: the try
\* block and its catch.  st is the medium after the call; preEvict and
\* quotaEvict list the removals of the eviction before the write and of the
\* eviction after a rejected write; attempts counts the calls of
\* localStorage.setItem.
set(st, t, q, key, value, ttlMs, keyOrder) ==
  LET try == setTry(st, t, q, key, value, ttlMs, keyOrder)
      noRetry == [quotaEvict |-> <<>>, quotaSurvivors |-> {}, sizeAtRetry |-> 0]
  IN IF try.ret.kind # "throw" THEN try @@ noRetry
     ELSE IF try.ret.val = "QuotaExceededError"
     THEN LET half == evictLRU(try.st, quotaTarget.num, quotaTarget.den, keyOrder)
              data == [value |-> value, timestamp |-> t, expiresAt |-> t + ttlMs]
              retry == setItem(half.st, q, getCacheKey(key), Stringify(data))
          IN [st |-> retry.st, ret |-> retryReturn(retry.throws), attempts |-> 2,
              quotaEvict |-> half.removed, quotaSurvivors |-> ReadableTimestamps(half.st),
              sizeAtRetry |-> getCacheSize(half.st)] @@ try
     ELSE [ret |-> RetBool(FALSE)] @@ try @@ noRetry

\* Seeded fault: an entry expires at expiresAt, Date.now() >= data.expiresAt
isExpired_atExpiresAt(t, data) == t >= data.expiresAt

\* if (Date.now() > data.expiresAt)
isExpired(t, data) == t > data.expiresAt

\* Seeded fault: an expired entry is reported and left in the medium
getTry_keepsExpired(st, t, key) ==
  LET cacheKey == getCacheKey(key)
  IN IF cacheKey \notin DOMAIN st THEN [st |-> st, ret |-> RetNull]
     ELSE IF ParseThrows(st[cacheKey]) THEN [st |-> st, ret |-> Throw("SyntaxError")]
     ELSE IF isExpired(t, Parse(st[cacheKey])) THEN [st |-> st, ret |-> RetNull]
     ELSE [st |-> st, ret |-> RetValue(Parse(st[cacheKey]).value)]

\* the try block of get
getTry(st, t, key) ==
  LET cacheKey == getCacheKey(key)
  IN IF cacheKey \notin DOMAIN st THEN [st |-> st, ret |-> RetNull]
     ELSE IF ParseThrows(st[cacheKey]) THEN [st |-> st, ret |-> Throw("SyntaxError")]
     ELSE LET data == Parse(st[cacheKey])
          IN IF isExpired(t, data)
             THEN [st |-> removeItem(st, cacheKey), ret |-> RetNull]
             ELSE [st |-> st, ret |-> RetValue(data.value)]

\* Seeded fault: get without its catch
get_noCatch(st, t, key) == getTry(st, t, key)

\* get(key) at time t: the try block, and null from its catch
get(st, t, key) ==
  LET try == getTry(st, t, key)
  IN IF try.ret.kind = "throw" THEN [st |-> try.st, ret |-> RetNull] ELSE try

\* Seeded fault: an entry is no longer valid at expiresAt,
\* Date.now() < data.expiresAt
isValid_beforeExpiresAt(st, t, key) ==
  LET cacheKey == getCacheKey(key)
  IN IF cacheKey \notin DOMAIN st THEN RetBool(FALSE)
     ELSE IF ParseThrows(st[cacheKey]) THEN RetBool(FALSE)
     ELSE RetBool(t < Parse(st[cacheKey]).expiresAt)

\* isValid(key) at time t: false from the catch
isValid(st, t, key) ==
  LET cacheKey == getCacheKey(key)
  IN IF cacheKey \notin DOMAIN st THEN RetBool(FALSE)
     ELSE IF ParseThrows(st[cacheKey]) THEN RetBool(FALSE)
     ELSE RetBool(t <= Parse(st[cacheKey]).expiresAt)

\* the loop of clearExpired over entries from index i on
RECURSIVE ClearExpiredLoop(_, _, _, _, _)
ClearExpiredLoop(st, t, entries, i, clearedCount) ==
  IF i > Len(entries) THEN [st |-> st, ret |-> RetNumber(clearedCount)]
  ELSE LET key == entries[i].key
       IN IF ParseThrows(st[key]) \/ isExpired(t, Parse(st[key]))
          THEN ClearExpiredLoop(removeItem(st, key), t, entries, i + 1, clearedCount + 1)
          ELSE ClearExpiredLoop(st, t, entries, i + 1, clearedCount)

clearExpired(st, t, keyOrder) ==
  ClearExpiredLoop(st, t, getCacheEntries(st, keyOrder), 1, 0)

RECURSIVE ClearAllLoop(_, _, _)
ClearAllLoop(st, entries, i) ==
  IF i > Len(entries) THEN st
  ELSE ClearAllLoop(removeItem(st, entries[i].key), entries, i + 1)

clearAll(st, keyOrder) ==
  LET entries == getCacheEntries(st, keyOrder)
  IN [st |-> ClearAllLoop(st, entries, 1), ret |-> RetNumber(Len(entries))]

\* getStats() at time t; utilizationPercent is the fraction
\* utilizationNum / utilizationDen
getStats(st, t, keyOrder) ==
  LET entries == getCacheEntries(st, keyOrder)
      totalSize == getCacheSize(st)
      expiredCount == Cardinality({i \in 1..Len(entries) :
                        ParseThrows(st[entries[i].key]) \/ t > Parse(st[entries[i].key]).expiresAt})
  IN RetStats([totalEntries |-> Len(entries),
               validEntries |-> Len(entries) - expiredCount,
               expiredEntries |-> expiredCount,
               totalSizeBytes |-> totalSize,
               maxSizeBytes |-> MAX_CACHE_SIZE_BYTES,
               utilizationNum |-> totalSize * 100,
               utilizationDen |-> MAX_CACHE_SIZE_BYTES])

(***************************************************************************)
(* The cache as a state machine: one action per exported function, the     *)
(* clock, and another script of the page writing under the cache's prefix  *)
(***************************************************************************)
\* permutations of a finite set, as sequences
Perms(S) == {p \in [1..Cardinality(S) -> S] : \A i, j \in 1..Cardinality(S) : i # j => p[i] # p[j]}

\* keys of the cache whose text parses
ReadableKeys(st) == {k \in PrefixedKeys(st) : ~ParseThrows(st[k])}

\* The order in which localStorage.key(i) lists the keys is user-agent
\* defined.  Only the relative order of entries with equal timestamps
\* reaches the program (the sort is stable), so one enumeration order per
\* outcome of the sort is kept.
KeyOrders(st) ==
  {p \in Perms(ReadableKeys(st)) :
     \A i, j \in 1..Len(p) : i < j => st[p[i]].timestamp <= st[p[j]].timestamp}

NoCall == [op |-> "none", key |-> "", value |-> Undefined, ttl |-> 0, ret |-> RetNull,
           sizeAtCall |-> 0, preEvict |-> <<>>, preSurvivors |-> {}, sizeAtWrite |-> 0,
           attempts |-> 0, quotaEvict |-> <<>>, quotaSurvivors |-> {}, sizeAtRetry |-> 0]

\* setLog[key]: the set that wrote the entry now stored for key
NotSet == [present |-> FALSE, value |-> Undefined, at |-> 0, ttl |-> 0]
WasSet(value, t, ttlMs) == [present |-> TRUE, value |-> value, at |-> t, ttl |-> ttlMs]

\* setLog after a step to the medium st: an entry that is gone, or is not
\* JSON, was written by no set
KeepLog(log, st) ==
  [k \in LogicalKeys |->
     IF getCacheKey(k) \in DOMAIN st /\ ~ParseThrows(st[getCacheKey(k)]) THEN log[k] ELSE NotSet]

Set(key, value, ttlMs) ==
  \E r \in {set(storage, now, quota, key, value, ttlMs, keyOrder) : keyOrder \in KeyOrders(storage)} :
     /\ storage' = r.st
     /\ lastOp' = [op |-> "set", key |-> key, value |-> value, ttl |-> ttlMs, ret |-> r.ret,
                   sizeAtCall |-> r.sizeAtCall, preEvict |-> r.preEvict,
                   preSurvivors |-> r.preSurvivors, sizeAtWrite |-> r.sizeAtWrite,
                   attempts |-> r.attempts, quotaEvict |-> r.quotaEvict,
                   quotaSurvivors |-> r.quotaSurvivors, sizeAtRetry |-> r.sizeAtRetry]
     /\ setLog' = IF r.ret = RetBool(TRUE)
                  THEN [KeepLog(setLog, r.st) EXCEPT ![key] = WasSet(value, now, ttlMs)]
                  ELSE KeepLog(setLog, r.st)
     /\ UNCHANGED <<now, quota, dcaVars, otherVars>>

Get(key) ==
  \E r \in {get(storage, now, key)} :
     /\ storage' = r.st
     /\ lastOp' = [NoCall EXCEPT !.op = "get", !.key = key, !.ret = r.ret,
                                 !.sizeAtCall = getCacheSize(storage)]
     /\ setLog' = KeepLog(setLog, r.st)
     /\ UNCHANGED <<now, quota, dcaVars, otherVars>>

IsValid(key) ==
  /\ lastOp' = [NoCall EXCEPT !.op = "isValid", !.key = key, !.ret = isValid(storage, now, key)]
  /\ UNCHANGED <<storage, now, quota, setLog, dcaVars, otherVars>>

ClearExpired ==
  \E keyOrder \in KeyOrders(storage) :
    \E r \in {clearExpired(storage, now, keyOrder)} :
       /\ storage' = r.st
       /\ lastOp' = [NoCall EXCEPT !.op = "clearExpired", !.ret = r.ret]
       /\ setLog' = KeepLog(setLog, r.st)
       /\ UNCHANGED <<now, quota, dcaVars, otherVars>>

ClearAll ==
  \E keyOrder \in KeyOrders(storage) :
    \E r \in {clearAll(storage, keyOrder)} :
       /\ storage' = r.st
       /\ lastOp' = [NoCall EXCEPT !.op = "clearAll", !.ret = r.ret]
       /\ setLog' = KeepLog(setLog, r.st)
       /\ UNCHANGED <<now, quota, dcaVars, otherVars>>

GetStats ==
  \E keyOrder \in KeyOrders(storage) :
    /\ lastOp' = [NoCall EXCEPT !.op = "getStats", !.ret = getStats(storage, now, keyOrder)]
    /\ UNCHANGED <<storage, now, quota, setLog, dcaVars, otherVars>>

\* time passes
Tick ==
  /\ now < MaxNow
  /\ now' = now + 1
  /\ lastOp' = [NoCall EXCEPT !.op = "tick"]
  /\ UNCHANGED <<storage, quota, setLog, dcaVars, otherVars>>

\* another script stores a text that is not JSON under a key of the cache
\* (localStorage.setItem('crypto-dca-cache:invalid', 'not-json'))
Corrupt(key) ==
  \E w \in {setItem(storage, quota, getCacheKey(key), NotJson)} :
     /\ ~w.throws
     /\ storage' = w.st
     /\ lastOp' = [NoCall EXCEPT !.op = "corrupt", !.key = key]
     /\ setLog' = KeepLog(setLog, w.st)
     /\ UNCHANGED <<now, quota, dcaVars, otherVars>>

NextCache ==
  \/ \E key \in LogicalKeys, c \in SetCalls : Set(key, c.value, c.ttlMs)
  \/ \E key \in LogicalKeys : Get(key)
  \/ \E key \in LogicalKeys : IsValid(key)
  \/ ClearExpired
  \/ ClearAll
  \/ GetStats
  \/ Tick
  \/ \E key \in CorruptKeys : Corrupt(key)


(***************************************************************************)
(* JavaScript numbers of the calculator, as exact fractions n / d, d > 0   *)
(***************************************************************************)
RECURSIVE Gcd(_, _)
Gcd(a, b) == IF b = 0 THEN a ELSE Gcd(b, a % b)

Abs(x) == IF x < 0 THEN -x ELSE x

\* n / d in lowest terms with d > 0; a division by zero gives Infinity
\* (1/0), -Infinity (-1/0) or NaN (0/0), as the Number type does
Frac(n, d) ==
  LET sn == IF d < 0 THEN -n ELSE n
      sd == Abs(d)
      g == Gcd(Abs(sn), sd)
  IN IF sd = 0 THEN [n |-> IF sn > 0 THEN 1 ELSE IF sn < 0 THEN -1 ELSE 0, d |-> 0]
     ELSE IF sn = 0 THEN [n |-> 0, d |-> 1]
     ELSE [n |-> sn \div g, d |-> sd \div g]

Num(k) == [n |-> k, d |-> 1]
Plus(a, b) == Frac(a.n * b.d + b.n * a.d, a.d * b.d)
Minus(a, b) == Frac(a.n * b.d - b.n * a.d, a.d * b.d)
Times(a, b) == Frac(a.n * b.n, a.d * b.d)
\* a / b
Over(a, b) == Frac(a.n * b.d, a.d * b.n)

(***************************************************************************)
(* Dates.  A calendar date is [y, m, d]; a Date object set to local        *)
(* midnight is its local day, counted from 2023-01-01.                     *)
(***************************************************************************)
FirstYear == 2023
LastYear == 2025

IsLeap(y) == (y % 4 = 0 /\ y % 100 # 0) \/ y % 400 = 0

DaysInMonth(y, m) ==
  IF m = 2 THEN (IF IsLeap(y) THEN 29 ELSE 28)
  ELSE IF m \in {4, 6, 9, 11} THEN 30 ELSE 31

RECURSIVE DaysBeforeMonth(_, _)
DaysBeforeMonth(y, m) == IF m = 1 THEN 0 ELSE DaysBeforeMonth(y, m - 1) + DaysInMonth(y, m - 1)

RECURSIVE DaysBeforeYear(_)
DaysBeforeYear(y) ==
  IF y = FirstYear THEN 0 ELSE DaysBeforeYear(y - 1) + (IF IsLeap(y - 1) THEN 366 ELSE 365)

\* the day of year y, month m (1..13: 13 is January of y + 1), day d; a
\* day past the end of the month runs into the next month, as in Date
ToDay(y, m, d) ==
  IF m > 12 THEN DaysBeforeYear(y + 1) + DaysBeforeMonth(y + 1, m - 12) + d - 1
  ELSE DaysBeforeYear(y) + DaysBeforeMonth(y, m) + d - 1

\* getFullYear / getMonth + 1 / getDate of a day
FromDay(n) ==
  LET y == CHOOSE yy \in FirstYear..LastYear :
             DaysBeforeYear(yy) <= n /\ n < DaysBeforeYear(yy + 1)
      r == n - DaysBeforeYear(y)
      m == CHOOSE mm \in 1..12 :
             DaysBeforeMonth(y, mm) <= r /\ r < DaysBeforeMonth(y, mm) + DaysInMonth(y, mm)
  IN [y |-> y, m |-> m, d |-> r - DaysBeforeMonth(y, m) + 1]

Date(y, m, d) == [y |-> y, m |-> m, d |-> d]

(***************************************************************************)
(* dateHelpers                                                             *)
(***************************************************************************)
MILLISECONDS_PER_DAY == 86400000
MILLISECONDS_PER_SECOND == 1000
DAYS_IN_WEEK == 7
DAYS_IN_BIWEEK == 14
\* seconds from 1970-01-01 to 2023-01-01, both at 00:00 UTC
EpochOf2023 == 1672531200

\* new Date('YYYY-MM-DD') is midnight UTC of that date; setHours(0, 0, 0, 0)
\* moves it to the midnight of the local day it falls in, which is the day
\* before west of Greenwich
LocalMidnight(iso, zone) == ToDay(iso.y, iso.m, iso.d) - (IF zone < 0 THEN 1 ELSE 0)

addDays(date, days) == date + days

\* setMonth(getMonth() + months) keeps the day of the month
addMonths(date, months) ==
  LET c == FromDay(date)
  IN ToDay(c.y, c.m + months, c.d)

\* the switch of generatePurchaseDates: the date after currentDate
nextDate(currentDate, frequency) ==
  CASE frequency = "daily" -> addDays(currentDate, 1)
    [] frequency = "weekly" -> addDays(currentDate, DAYS_IN_WEEK)
    [] frequency = "biweekly" -> addDays(currentDate, DAYS_IN_BIWEEK)
    [] frequency = "monthly" -> addMonths(currentDate, 1)

\* the loop of generatePurchaseDates from currentDate on; the default
\* branch of the switch throws 'Invalid frequency'
RECURSIVE PurchaseDatesLoop(_, _, _, _)
PurchaseDatesLoop(currentDate, end, frequency, dates) ==
  IF ~(currentDate <= end) THEN [throws |-> FALSE, dates |-> dates]
  ELSE IF frequency \notin {"daily", "weekly", "biweekly", "monthly"}
  THEN [throws |-> TRUE, dates |-> <<>>]
  ELSE PurchaseDatesLoop(nextDate(currentDate, frequency), end, frequency, Append(dates, currentDate))

\* Seeded fault: a reversed range is put in order before the loop
generatePurchaseDates_ordered(startDate, endDate, frequency, zone) ==
  LET a == LocalMidnight(startDate, zone)
      b == LocalMidnight(endDate, zone)
  IN PurchaseDatesLoop(IF a <= b THEN a ELSE b, IF a <= b THEN b ELSE a, frequency, <<>>)

generatePurchaseDates(startDate, endDate, frequency, zone) ==
  PurchaseDatesLoop(LocalMidnight(startDate, zone), LocalMidnight(endDate, zone), frequency, <<>>)

\* toISODateString: the local calendar date
toISODateString(date) == FromDay(date)

\* toUnixTimestamp: Math.floor(getTime() / 1000), the seconds of the local
\* midnight (getTime() is a whole number of seconds there)
toUnixTimestamp(date, zone) ==
  EpochOf2023 + date * (MILLISECONDS_PER_DAY \div MILLISECONDS_PER_SECOND) - zone * 3600

(***************************************************************************)
(* dcaCalculator                                                           *)
(***************************************************************************)
\* Seeded fault: a point at the same distance replaces the closest so far,
\* if (diff <= minDiff)
RECURSIVE ClosestLoop_lastWins(_, _, _, _, _)
ClosestLoop_lastWins(targetTimestamp, prices, i, closest, minDiff) ==
  IF i > Len(prices) THEN closest
  ELSE LET diff == Abs(prices[i].timestamp - targetTimestamp)
       IN IF diff <= minDiff
          THEN ClosestLoop_lastWins(targetTimestamp, prices, i + 1, prices[i], diff)
          ELSE ClosestLoop_lastWins(targetTimestamp, prices, i + 1, closest, minDiff)

\* findClosestPrice: null (found FALSE) on an empty series, else the price
\* of the first point at the least distance
RECURSIVE ClosestLoop(_, _, _, _, _)
ClosestLoop(targetTimestamp, prices, i, closest, minDiff) ==
  IF i > Len(prices) THEN closest
  ELSE LET diff == Abs(prices[i].timestamp - targetTimestamp)
       IN IF diff < minDiff
          THEN ClosestLoop(targetTimestamp, prices, i + 1, prices[i], diff)
          ELSE ClosestLoop(targetTimestamp, prices, i + 1, closest, minDiff)

findClosestPrice(targetTimestamp, prices) ==
  IF Len(prices) = 0 THEN [found |-> FALSE, price |-> 0]
  ELSE [found |-> TRUE,
        price |-> ClosestLoop(targetTimestamp, prices, 1, prices[1],
                              Abs(prices[1].timestamp - targetTimestamp)).price]

\* Seeded fault: a date without a price is bought at the amount invested,
\* const price = findClosestPrice(timestamp, historicalPrices) || investmentAmount
calculatePurchases_defaultPrice(dates, historicalPrices, investmentAmount, zone) ==
  LET found(i) == findClosestPrice(toUnixTimestamp(dates[i], zone), historicalPrices)
      priceOf(i) == IF found(i).found /\ found(i).price # 0 THEN found(i).price ELSE investmentAmount
  IN [throws |-> FALSE,
      purchases |-> [i \in 1..Len(dates) |->
         [date |-> toISODateString(dates[i]),
          timestamp |-> toUnixTimestamp(dates[i], zone),
          price |-> priceOf(i),
          quantity |-> Over(Num(investmentAmount), Num(priceOf(i))),
          invested |-> Num(investmentAmount),
          runningTotal |-> Num(0)]]]

\* calculatePurchases: throws 'No price data found' when a date has no
\* price (none found, or a price that is falsy: 0)
calculatePurchases(dates, historicalPrices, investmentAmount, zone) ==
  LET priceOf(i) == findClosestPrice(toUnixTimestamp(dates[i], zone), historicalPrices)
  IN IF \E i \in 1..Len(dates) : ~priceOf(i).found \/ priceOf(i).price = 0
     THEN [throws |-> TRUE, purchases |-> <<>>]
     ELSE [throws |-> FALSE,
           purchases |-> [i \in 1..Len(dates) |->
              [date |-> toISODateString(dates[i]),
               timestamp |-> toUnixTimestamp(dates[i], zone),
               price |-> priceOf(i).price,
               quantity |-> Over(Num(investmentAmount), Num(priceOf(i).price)),
               invested |-> Num(investmentAmount),
               runningTotal |-> Num(0)]]]

\* purchases.reduce((sum, p) => sum + p.quantity, 0) over the first i
RECURSIVE SumQuantity(_, _)
SumQuantity(ps, i) == IF i = 0 THEN Num(0) ELSE Plus(SumQuantity(ps, i - 1), ps[i].quantity)

RECURSIVE SumInvested(_, _)
SumInvested(ps, i) == IF i = 0 THEN Num(0) ELSE Plus(SumInvested(ps, i - 1), ps[i].invested)

\* Seeded fault: the holding is valued at the price of the last purchase
calculateMetrics_lastPrice(ps, currentPrice, investmentAmount) ==
  LET totalInvested == Num(Len(ps) * investmentAmount)
      totalQuantity == SumQuantity(ps, Len(ps))
      currentValue == Times(totalQuantity, Num(ps[Len(ps)].price))
      profitLoss == Minus(currentValue, totalInvested)
  IN [totalInvested |-> totalInvested,
      totalQuantity |-> totalQuantity,
      currentValue |-> currentValue,
      profitLoss |-> profitLoss,
      profitLossPercent |-> Times(Over(profitLoss, totalInvested), Num(100)),
      averagePrice |-> Over(totalInvested, totalQuantity),
      currentPrice |-> currentPrice,
      purchases |-> ps]

\* Seeded fault: every purchase is valued at the final current price,
\* const runningValue = runningQuantity * currentPrice
calculateMetrics_finalPrice(ps, currentPrice, investmentAmount) ==
  LET totalInvested == Num(Len(ps) * investmentAmount)
      totalQuantity == SumQuantity(ps, Len(ps))
      currentValue == Times(totalQuantity, Num(currentPrice))
      profitLoss == Minus(currentValue, totalInvested)
  IN [totalInvested |-> totalInvested,
      totalQuantity |-> totalQuantity,
      currentValue |-> currentValue,
      profitLoss |-> profitLoss,
      profitLossPercent |-> Times(Over(profitLoss, totalInvested), Num(100)),
      averagePrice |-> Over(totalInvested, totalQuantity),
      currentPrice |-> currentPrice,
      purchases |-> [i \in 1..Len(ps) |->
         [date |-> ps[i].date, timestamp |-> ps[i].timestamp, price |-> ps[i].price,
          quantity |-> ps[i].quantity, invested |-> ps[i].invested,
          runningTotal |-> Times(SumQuantity(ps, i), Num(currentPrice)),
          runningInvested |-> SumInvested(ps, i),
          runningProfitLoss |-> Minus(Times(SumQuantity(ps, i), Num(currentPrice)),
                                      SumInvested(ps, i))]]]

calculateMetrics(ps, currentPrice, investmentAmount) ==
  LET totalInvested == Num(Len(ps) * investmentAmount)
      totalQuantity == SumQuantity(ps, Len(ps))
      currentValue == Times(totalQuantity, Num(currentPrice))
      profitLoss == Minus(currentValue, totalInvested)
  IN [totalInvested |-> totalInvested,
      totalQuantity |-> totalQuantity,
      currentValue |-> currentValue,
      profitLoss |-> profitLoss,
      profitLossPercent |-> Times(Over(profitLoss, totalInvested), Num(100)),
      averagePrice |-> Over(totalInvested, totalQuantity),
      currentPrice |-> currentPrice,
      purchases |-> [i \in 1..Len(ps) |->
         [date |-> ps[i].date, timestamp |-> ps[i].timestamp, price |-> ps[i].price,
          quantity |-> ps[i].quantity, invested |-> ps[i].invested,
          runningTotal |-> Times(SumQuantity(ps, i), Num(ps[i].price)),
          runningInvested |-> SumInvested(ps, i),
          runningProfitLoss |-> Minus(Times(SumQuantity(ps, i), Num(ps[i].price)),
                                      SumInvested(ps, i))]]]

\* the object calculateDCA returns
dcaResults(config, finalEndDate, metrics, currentPrice) ==
  [purchases |-> metrics.purchases,
   metrics |-> metrics,
   currentPrice |-> currentPrice,
   totalPurchases |-> Len(metrics.purchases),
   dateRange |-> [start |-> config.startDate, end |-> finalEndDate]]

(***************************************************************************)
(* Inputs of the calculator                                                *)
(***************************************************************************)
\* new Date().toISOString().split('T')[0] when the call is made
Today == Date(2024, 3, 5)
NoDate == Date(0, 0, 0)

StartDates == {Date(2024, 1, 25), Date(2024, 1, 31), Date(2024, 2, 20)}
EndDates == {Date(2024, 1, 25), Date(2024, 2, 8), NoDate}
Frequencies == {"daily", "weekly", "biweekly", "monthly"}
\* 0 and -1 are amounts a caller can pass: calculateDCA takes any number
Amounts == {-1, 0, 1, 100}
TimeZones == {-5, 0, 7}

\* seconds of 00:00 UTC of a calendar date
UtcSeconds(iso) == EpochOf2023 + ToDay(iso.y, iso.m, iso.d) * 86400
Point(iso, price) == [timestamp |-> UtcSeconds(iso), price |-> price]

\* what getHistoricalPrices can resolve to
Series == {<<>>,
           <<Point(Date(2024, 1, 25), 4)>>,
           <<Point(Date(2024, 1, 25), 4), Point(Date(2024, 2, 8), 5)>>,
           <<Point(Date(2024, 2, 1), 2), Point(Date(2024, 2, 29), 3), Point(Date(2024, 3, 2), 5)>>,
           <<Point(Date(2024, 1, 25), 0), Point(Date(2024, 2, 22), 5)>>}
\* what getCurrentPrice can resolve to
CurrentPrices == {3, 6}

\* 'yearly' is a frequency outside the type, as an untyped caller can pass.
\* A daily schedule is taken over a range of at most MaxDailySpan days.
Configs ==
  {c \in [assetPair : {"BTC-USD"}, startDate : StartDates, endDate : EndDates,
          frequency : Frequencies \cup {"yearly"}, investmentAmount : Amounts] :
     c.frequency = "daily" =>
       LET end == IF c.endDate = NoDate THEN Today ELSE c.endDate
       IN ToDay(end.y, end.m, end.d) - ToDay(c.startDate.y, c.startDate.m, c.startDate.d) <= MaxDailySpan}

Error(message) == [ok |-> FALSE, error |-> message]
Returned(result) == [ok |-> TRUE, result |-> result]
NoOutcome == [ok |-> FALSE, error |-> ""]

\* the await of getHistoricalPrices: pending, or resolved to a series
Pending == [resolved |-> FALSE, prices |-> <<>>]
Resolved(prices) == [resolved |-> TRUE, prices |-> prices]

\* endDate = new Date().toISOString().split('T')[0] when the config has none
finalEndDate(config) == IF config.endDate = NoDate THEN Today ELSE config.endDate

(***************************************************************************)
(* calculateDCA as a state machine: the call runs to its first await, and  *)
(* goes on when the adapter resolves or rejects                            *)
(***************************************************************************)
\* lines 77-112: up to await priceApi.getHistoricalPrices(...)
CalculateDCA(config) ==
  /\ dcaPc \in {"idle", "returned", "failed"}
  /\ dcaConfig' = config
  /\ purchases' = <<>>
  /\ historical' = Pending
  /\ rejection' = ""
  /\ \E g \in {generatePurchaseDates(config.startDate, finalEndDate(config), config.frequency, tz)} :
       IF g.throws
       THEN /\ dcaPc' = "failed"
            /\ dcaOutcome' = Error("Invalid frequency")
            /\ purchaseDates' = <<>>
            /\ adapterLog' = <<>>
       ELSE IF Len(g.dates) = 0
       THEN /\ dcaPc' = "failed"
            /\ dcaOutcome' = Error("No purchase dates generated")
            /\ purchaseDates' = <<>>
            /\ adapterLog' = <<>>
       ELSE /\ dcaPc' = "awaitHistorical"
            /\ dcaOutcome' = NoOutcome
            /\ purchaseDates' = g.dates
            /\ adapterLog' = <<[fn |-> "getHistoricalPrices",
                                from |-> toUnixTimestamp(g.dates[1], tz),
                                to |-> toUnixTimestamp(g.dates[Len(g.dates)], tz)]>>
  /\ UNCHANGED <<tz, cacheVars, otherVars>>

\* lines 114-122: getHistoricalPrices resolved; up to await getCurrentPrice
HistoricalResolves(historicalPrices) ==
  /\ dcaPc = "awaitHistorical"
  /\ historical' = Resolved(historicalPrices)
  /\ \E c \in {calculatePurchases(purchaseDates, historicalPrices, dcaConfig.investmentAmount, tz)} :
       IF c.throws
       THEN /\ dcaPc' = "failed"
            /\ dcaOutcome' = Error("No price data found")
            /\ UNCHANGED <<purchases, adapterLog>>
       ELSE /\ dcaPc' = "awaitCurrent"
            /\ purchases' = c.purchases
            /\ adapterLog' = Append(adapterLog, [fn |-> "getCurrentPrice", from |-> 0, to |-> 0])
            /\ UNCHANGED dcaOutcome
  /\ UNCHANGED <<tz, dcaConfig, purchaseDates, rejection, cacheVars, otherVars>>

\* Seeded fault: a rejected await is caught and a result is made of what
\* has been computed, with 0 for the current price
propagate_partial(error) ==
  [pc |-> "returned",
   outcome |-> Returned(dcaResults(dcaConfig, finalEndDate(dcaConfig), [purchases |-> purchases], 0))]

\* neither await is inside a try: the adapter's error is the error
\* calculateDCA rejects with
propagate(error) == [pc |-> "failed", outcome |-> Error(error)]

\* a rejected await: the error leaves calculateDCA
AdapterRejects ==
  /\ dcaPc \in {"awaitHistorical", "awaitCurrent"}
  /\ \E error \in {IF dcaPc = "awaitHistorical" THEN "Failed to fetch historical prices"
                    ELSE "Failed to fetch current price"} :
       /\ rejection' = error
       /\ \E p \in {propagate(error)} :
            /\ dcaPc' = p.pc
            /\ dcaOutcome' = p.outcome
  /\ UNCHANGED <<tz, dcaConfig, purchaseDates, purchases, adapterLog, historical, cacheVars, otherVars>>

\* lines 124-136: getCurrentPrice resolved
CurrentResolves(currentPrice) ==
  /\ dcaPc = "awaitCurrent"
  /\ dcaPc' = "returned"
  /\ dcaOutcome' = Returned(dcaResults(dcaConfig, finalEndDate(dcaConfig),
                      calculateMetrics(purchases, currentPrice, dcaConfig.investmentAmount),
                      currentPrice))
  /\ UNCHANGED <<tz, dcaConfig, purchaseDates, purchases, adapterLog, historical, rejection,
                 cacheVars, otherVars>>

NextDCA ==
  \/ \E config \in Configs : CalculateDCA(config)
  \/ \E historicalPrices \in Series : HistoricalResolves(historicalPrices)
  \/ AdapterRejects
  \/ \E currentPrice \in CurrentPrices : CurrentResolves(currentPrice)

(***************************************************************************)
(* Two calls of calculateDCA in flight together.  A call suspends at its   *)
(* two awaits; the other call runs in between.  Everything calculateDCA    *)
(* assigns is a const or a parameter of its own invocation.                *)
(***************************************************************************)
EngineCalls == {1, 2}

\* the configs and the replies of the adapter the two calls are given
EngineConfigs ==
  {c \in Configs : /\ c.frequency \in {"weekly", "monthly"}
                   /\ c.startDate = Date(2024, 1, 25)
                   /\ c.endDate = NoDate
                   /\ c.investmentAmount \in {1, 100}}
EngineSeries == {<<>>,
                 <<Point(Date(2024, 1, 25), 4), Point(Date(2024, 2, 8), 5)>>,
                 <<Point(Date(2024, 2, 1), 2), Point(Date(2024, 2, 29), 3), Point(Date(2024, 3, 2), 5)>>}

\* Seeded fault: the locals are module-level variables, one set for all calls
slot_shared(call) == 1

\* the activation record a call's locals live in: its own
slot(call) == call

NoFrame == [config |-> CHOOSE c \in EngineConfigs : TRUE, purchaseDates |-> <<>>, purchases |-> <<>>]
IdleCall == [pc |-> "idle", config |-> CHOOSE c \in EngineConfigs : TRUE, historical |-> Pending,
             currentPrice |-> 0, rejection |-> "", interleaved |-> FALSE, outcome |-> NoOutcome]

InFlight(call) == calls[call].pc \in {"awaitHistorical", "awaitCurrent"}

\* calls after a step of call that leaves it as next: a call that is
\* suspended meanwhile has been interleaved with
StepOf(call, next) ==
  [c \in EngineCalls |->
     IF c = call THEN next
     ELSE IF InFlight(c) THEN [calls[c] EXCEPT !.interleaved = TRUE]
     ELSE calls[c]]

\* lines 77-112 of one of the calls
EngineCalculateDCA(call, config) ==
  /\ ~InFlight(call)
  /\ \E g \in {generatePurchaseDates(config.startDate, finalEndDate(config), config.frequency, tz)} :
       LET dates == IF g.throws THEN <<>> ELSE g.dates
           begun == [IdleCall EXCEPT !.config = config]
       IN /\ frames' = [frames EXCEPT ![slot(call)] =
                          [config |-> config, purchaseDates |-> dates, purchases |-> <<>>]]
          /\ calls' = StepOf(call,
               IF g.throws
               THEN [begun EXCEPT !.pc = "failed", !.outcome = Error("Invalid frequency")]
               ELSE IF Len(dates) = 0
               THEN [begun EXCEPT !.pc = "failed", !.outcome = Error("No purchase dates generated")]
               ELSE [begun EXCEPT !.pc = "awaitHistorical"])
  /\ UNCHANGED <<cacheVars, dcaVars, apiVars>>

\* lines 114-122 of one of the calls
EngineHistoricalResolves(call, historicalPrices) ==
  /\ calls[call].pc = "awaitHistorical"
  /\ LET frame == frames[slot(call)]
         answered == [calls[call] EXCEPT !.historical = Resolved(historicalPrices)]
     IN \E c \in {calculatePurchases(frame.purchaseDates, historicalPrices,
                                     frame.config.investmentAmount, tz)} :
          IF c.throws
          THEN /\ calls' = StepOf(call, [answered EXCEPT !.pc = "failed",
                                                        !.outcome = Error("No price data found")])
               /\ UNCHANGED frames
          ELSE /\ calls' = StepOf(call, [answered EXCEPT !.pc = "awaitCurrent"])
               /\ frames' = [frames EXCEPT ![slot(call)].purchases = c.purchases]
  /\ UNCHANGED <<cacheVars, dcaVars, apiVars>>

\* a rejected await of one of the calls
EngineAdapterRejects(call) ==
  /\ InFlight(call)
  /\ \E error \in {IF calls[call].pc = "awaitHistorical" THEN "Failed to fetch historical prices"
                    ELSE "Failed to fetch current price"} :
       calls' = StepOf(call, [calls[call] EXCEPT !.pc = "failed", !.rejection = error,
                                                 !.outcome = Error(error)])
  /\ UNCHANGED <<frames, cacheVars, dcaVars, apiVars>>

\* lines 124-136 of one of the calls
EngineCurrentResolves(call, currentPrice) ==
  /\ calls[call].pc = "awaitCurrent"
  /\ LET frame == frames[slot(call)]
     IN calls' = StepOf(call,
          [calls[call] EXCEPT !.pc = "returned", !.currentPrice = currentPrice,
             !.outcome = Returned(dcaResults(frame.config, finalEndDate(frame.config),
                           calculateMetrics(frame.purchases, currentPrice, frame.config.investmentAmount),
                           currentPrice))])
  /\ UNCHANGED <<frames, cacheVars, dcaVars, apiVars>>

NextEngine ==
  \/ \E call \in EngineCalls, config \in EngineConfigs : EngineCalculateDCA(call, config)
  \/ \E call \in EngineCalls, historicalPrices \in EngineSeries : EngineHistoricalResolves(call, historicalPrices)
  \/ \E call \in EngineCalls : EngineAdapterRejects(call)
  \/ \E call \in EngineCalls, currentPrice \in CurrentPrices : EngineCurrentResolves(call, currentPrice)

(***************************************************************************)
(* priceApi.ts: the adapter over the cache, the rate limiter and fetch     *)
(***************************************************************************)
ApiCallers == {1, 2}

\* the clock of the adapter runs from ClockStart in steps of ClockStep, for
\* MaxTicks steps; lastRequestTime starts at 0, a time long past
ClockStep == RETRY_DELAY_MS \div 2
ClockStart == RATE_LIMIT_DELAY_MS
ClockEnd == ClockStart + MaxTicks * ClockStep

\* a JavaScript value that is not a string, by its JSON text
Json(text) == [t |-> "json", s |-> text, pad |-> 0]

\* what fetch comes to: it rejects (the network is down), or resolves to a
\* response with a status, whose body json() parses (parses TRUE) to data or
\* rejects.  data is what the two adapter functions look at: prices of
\* the market chart (isArray: whether data.prices is an array; each point is
\* [milliseconds, price], the milliseconds as seconds and a rest) and the
\* price of the simple price (0: data[coinId] or the price is missing).
NoData == [hasPrices |-> FALSE, isArray |-> FALSE, prices |-> <<>>, price |-> 0]
Rejects == [kind |-> "rejects", status |-> 0, parses |-> FALSE, data |-> NoData]
Status(status) == [kind |-> "response", status |-> status, parses |-> FALSE, data |-> NoData]
NotJsonBody == [kind |-> "response", status |-> 200, parses |-> FALSE, data |-> NoData]
Ok(data) == [kind |-> "response", status |-> 200, parses |-> TRUE, data |-> data]
Chart(prices) == [NoData EXCEPT !.hasPrices = TRUE, !.isArray = TRUE, !.prices = prices]
Simple(price) == [NoData EXCEPT !.price = price]
RawPoint(seconds, rest, price) == [seconds |-> seconds, rest |-> rest, priced |-> TRUE, price |-> price]
\* [<milliseconds>, null]
NullPoint(seconds, rest) == [seconds |-> seconds, rest |-> rest, priced |-> FALSE, price |-> 0]

Responses(fn) ==
  {Rejects, Status(HTTP_STATUS_TOO_MANY_REQUESTS), Status(500), NotJsonBody, Ok(NoData)} \cup
  (IF fn = "getHistoricalPrices"
   THEN {Ok(Chart(<<RawPoint(FromTimestamp, 0, 29000), RawPoint(ToTimestamp, 999, 30000)>>)),
         Ok(Chart(<<NullPoint(FromTimestamp, 0)>>)),
         Ok([NoData EXCEPT !.hasPrices = TRUE])}
   ELSE {Ok(Simple(50000))})

\* response.ok
ResponseOk(response) == response.status >= 200 /\ response.status <= 299

\* Seeded fault: applyRateLimit never sleeps
applyRateLimit_none(t, last) == 0

\* applyRateLimit at time t: the delay it sleeps, 0 when it does not sleep
applyRateLimit(t, last) ==
  LET timeSinceLastRequest == t - last
  IN IF timeSinceLastRequest < RATE_LIMIT_DELAY_MS
     THEN RATE_LIMIT_DELAY_MS - timeSinceLastRequest
     ELSE 0

\* Seeded fault: a 429 is not tried again
afterFetch_no429Retry(response, retries) ==
  IF response.kind = "response" /\ response.status = HTTP_STATUS_TOO_MANY_REQUESTS THEN "throw"
  ELSE IF response.kind = "rejects" \/ ~ResponseOk(response) \/ ~response.parses
  THEN (IF retries > 0 THEN "retry" ELSE "throw")
  ELSE "return"

\* what makeRequest(url, retries) does with what its fetch came to:
\* "retry" (sleep RETRY_DELAY_MS, then makeRequest(url, retries - 1)),
\* "return" (the parsed data) or "throw"
afterFetch(response, retries) ==
  IF response.kind = "rejects" THEN (IF retries > 0 THEN "retry" ELSE "throw")
  ELSE IF ~ResponseOk(response)
  THEN (IF response.status = HTTP_STATUS_TOO_MANY_REQUESTS /\ retries > 0 THEN "retry"
        ELSE IF retries > 0 THEN "retry"
        ELSE "throw")
  ELSE IF ~response.parses THEN (IF retries > 0 THEN "retry" ELSE "throw")
  ELSE "return"

\* JSON.stringify of the transformed prices,
\* [{"timestamp":<seconds>,"price":<price>},...]
RECURSIVE PricesJson(_, _)
PricesJson(prices, i) ==
  IF i > Len(prices) THEN ""
  ELSE (IF i > 1 THEN "," ELSE "") \o
       "{\"timestamp\":" \o ToString(prices[i].timestamp) \o ",\"price\":"
       \o (IF prices[i].priced THEN ToString(prices[i].price) ELSE "null") \o "}"
       \o PricesJson(prices, i + 1)

\* data.prices.map(([timestamp, price]) => ({timestamp: Math.floor(timestamp / 1000), price}))
transformPrices(raw) == [i \in 1..Len(raw) |-> [timestamp |-> raw[i].seconds, priced |-> raw[i].priced, price |-> raw[i].price]]

\* what an adapter function does with the data makeRequest returned: throws
\* (stores FALSE), or caches value for ttlMs and returns it
afterData(fn, data) ==
  IF fn = "getHistoricalPrices"
  THEN IF ~data.hasPrices \/ ~data.isArray
       THEN [stores |-> FALSE, value |-> Undefined, ttlMs |-> 0,
             error |-> "Failed to fetch historical prices: Invalid response format from CoinGecko API"]
       ELSE [stores |-> TRUE, value |-> Json("[" \o PricesJson(transformPrices(data.prices), 1) \o "]"),
             ttlMs |-> DEFAULT_TTL_MS, error |-> ""]
  ELSE IF data.price = 0
       THEN [stores |-> FALSE, value |-> Undefined, ttlMs |-> 0,
             error |-> "Failed to fetch current price: Price not found"]
       ELSE [stores |-> TRUE, value |-> Json(ToString(data.price)), ttlMs |-> FIVE_MINUTES_MS, error |-> ""]

\* the error an adapter function rejects with when makeRequest throws
fetchError(fn) ==
  IF fn = "getHistoricalPrices" THEN "Failed to fetch historical prices: API request failed"
  ELSE "Failed to fetch current price: API request failed"

\* if (cachedData) of getHistoricalPrices, if (cachedData !== null) of
\* getCurrentPrice, on what cache.get returned
Truthy(v) ==
  IF v.t = "string" THEN Len(v.s) + v.pad > 0
  ELSE IF v.t = "json" THEN v.s \notin {"0", "null", "false", "\"\""}
  ELSE FALSE

\* Seeded fault: the cache is not consulted
cacheHit_never(fn, ret) == FALSE

cacheHit(fn, ret) ==
  IF fn = "getHistoricalPrices" THEN ret.kind = "value" /\ Truthy(ret.val)
  ELSE ret.kind # "null"

\* an adapter call: where it stands (idle; rateLimit: asleep in
\* applyRateLimit; fetch: awaiting fetch; retryDelay: asleep before the next
\* makeRequest; done), the retries its makeRequest has left, when its sleep
\* ends (wake; for a fetch, when it has settled at the latest), and what it
\* came to.  Kept for the properties: the calls its caller has made, its
\* calls of fetch and of cache.set, the unexpired entry the cache held for
\* its key when it was called (held), and what its last fetch came to
\* (response), until its next attempt begins.
NotHeld == [present |-> FALSE, value |-> Undefined]
Held(value) == [present |-> TRUE, value |-> value]
NoResponse == [kind |-> "none", status |-> 0, parses |-> FALSE, data |-> NoData]
IdleRequest == [pc |-> "idle", calls |-> 0, fn |-> "", retries |-> 0, wake |-> 0, fetches |-> 0, sets |-> 0,
                held |-> NotHeld, response |-> NoResponse, ok |-> FALSE, value |-> Undefined, error |-> ""]

RECURSIVE CallsMade(_)
CallsMade(callers) ==
  IF callers = {} THEN 0
  ELSE LET caller == CHOOSE c \in callers : TRUE
       IN requests[caller].calls + CallsMade(callers \ {caller})

Fetching(caller) == requests[caller].pc \in {"rateLimit", "fetch", "retryDelay"}

\* the time between a call of fetch at time t and the call of fetch before
\* it: lastRequestTime is still the time of that call, or 0 before any
NoGap == -1
GapAt(t) == IF lastRequestTime = 0 THEN NoGap ELSE t - lastRequestTime

\* makeRequest(url, retries) up to its first await that suspends: it sleeps
\* in applyRateLimit, or sets lastRequestTime and calls fetch
BeginAttempt(caller, request, retries) ==
  \E delay \in {applyRateLimit(now, lastRequestTime)} :
     IF delay > 0
     THEN /\ requests' = [requests EXCEPT ![caller] =
                            [request EXCEPT !.pc = "rateLimit", !.retries = retries,
                                            !.response = NoResponse, !.wake = now + delay]]
          /\ UNCHANGED <<lastRequestTime, fetchGap>>
     ELSE /\ requests' = [requests EXCEPT ![caller] =
                            [request EXCEPT !.pc = "fetch", !.retries = retries,
                                            !.response = NoResponse,
                                            !.wake = now + MaxLatency * ClockStep,
                                            !.fetches = request.fetches + 1]]
          /\ lastRequestTime' = now
          /\ fetchGap' = GapAt(now)

\* getHistoricalPrices / getCurrentPrice up to the first await that suspends
ApiCall(caller, fn) ==
  /\ ~Fetching(caller)
  /\ CallsMade(ApiCallers) < MaxCalls
  /\ \E g \in {get(storage, now, cacheKeyOf(fn))} :
       LET cacheKey == getCacheKey(cacheKeyOf(fn))
           called == [IdleRequest EXCEPT !.fn = fn, !.calls = requests[caller].calls + 1,
                        !.held = IF cacheKey \in DOMAIN storage /\ ~ParseThrows(storage[cacheKey])
                                    /\ now <= storage[cacheKey].expiresAt
                                 THEN Held(storage[cacheKey].value) ELSE NotHeld]
       IN /\ storage' = g.st
          /\ IF cacheHit(fn, g.ret)
             THEN /\ requests' = [requests EXCEPT ![caller] =
                                    [called EXCEPT !.pc = "done", !.ok = TRUE, !.value = g.ret.val]]
                  /\ UNCHANGED <<lastRequestTime, fetchGap, overlapped>>
             ELSE /\ BeginAttempt(caller, called, MAX_RETRIES)
                  /\ overlapped' = (overlapped \/ \E other \in ApiCallers \ {caller} : Fetching(other))
  /\ UNCHANGED <<now, quota, lastOp, setLog, apiWrites, dcaVars, engineVars>>

\* a sleep ends: applyRateLimit sets lastRequestTime and fetch is called, or
\* makeRequest(url, retries - 1) begins
ApiTimer(caller) ==
  /\ requests[caller].pc \in {"rateLimit", "retryDelay"}
  /\ now >= requests[caller].wake
  /\ IF requests[caller].pc = "rateLimit"
     THEN /\ requests' = [requests EXCEPT ![caller].pc = "fetch",
                                          ![caller].wake = now + MaxLatency * ClockStep,
                                          ![caller].fetches = requests[caller].fetches + 1]
          /\ lastRequestTime' = now
          /\ fetchGap' = GapAt(now)
     ELSE BeginAttempt(caller, requests[caller], requests[caller].retries - 1)
  /\ UNCHANGED <<storage, now, quota, lastOp, setLog, apiWrites, overlapped, dcaVars, engineVars>>

\* fetch settles: makeRequest retries, throws, or returns the data, which
\* the adapter function rejects or caches and returns
ApiResponse(caller, response) ==
  /\ requests[caller].pc = "fetch"
  /\ LET request == [requests[caller] EXCEPT !.response = response]
         fn == request.fn
         next == afterFetch(response, request.retries)
     IN IF next = "retry"
        THEN /\ requests' = [requests EXCEPT ![caller] =
                               [request EXCEPT !.pc = "retryDelay", !.wake = now + RETRY_DELAY_MS]]
             /\ UNCHANGED <<storage, apiWrites>>
        ELSE IF next = "throw"
        THEN /\ requests' = [requests EXCEPT ![caller] =
                               [request EXCEPT !.pc = "done", !.retries = 0, !.wake = 0, !.error = fetchError(fn)]]
             /\ UNCHANGED <<storage, apiWrites>>
        ELSE \E a \in {afterData(fn, response.data)} :
               IF ~a.stores
               THEN /\ requests' = [requests EXCEPT ![caller] =
                                      [request EXCEPT !.pc = "done", !.retries = 0, !.wake = 0, !.error = a.error]]
                    /\ UNCHANGED <<storage, apiWrites>>
               ELSE \E w \in {set(storage, now, quota, cacheKeyOf(fn), a.value, a.ttlMs, keyOrder) :
                                keyOrder \in KeyOrders(storage)} :
                      /\ storage' = w.st
                      /\ apiWrites' = [k \in ApiKeys |->
                           IF k = cacheKeyOf(fn) /\ w.ret = RetBool(TRUE) THEN WasSet(a.value, now, a.ttlMs)
                           ELSE IF getCacheKey(k) \in DOMAIN w.st THEN apiWrites[k]
                           ELSE NotSet]
                      /\ requests' = [requests EXCEPT ![caller] =
                                        [request EXCEPT !.pc = "done", !.retries = 0, !.wake = 0, !.ok = TRUE, !.value = a.value,
                                                        !.sets = request.sets + 1]]
  /\ UNCHANGED <<now, quota, lastOp, setLog, lastRequestTime, fetchGap, overlapped, dcaVars, engineVars>>

\* time passes, by a step of the clock or up to the end of the next sleep
\* if that is sooner: a sleep that has ended is woken first, and a fetch
\* settles within MaxLatency steps
Asleep == {caller \in ApiCallers : requests[caller].pc \in {"rateLimit", "retryDelay"}}
NextInstant ==
  LET sooner == {requests[caller].wake : caller \in Asleep} \cap (now + 1)..(now + ClockStep)
  IN IF sooner = {} THEN now + ClockStep ELSE CHOOSE t \in sooner : \A u \in sooner : t <= u

ApiTick ==
  /\ NextInstant <= ClockEnd
  /\ \A caller \in ApiCallers :
       /\ caller \in Asleep => now < requests[caller].wake
       /\ requests[caller].pc = "fetch" => NextInstant <= requests[caller].wake
  /\ now' = NextInstant
  /\ UNCHANGED <<storage, quota, lastOp, setLog, apiVars, dcaVars, engineVars>>

NextApi ==
  \/ \E caller \in ApiCallers, fn \in ApiFunctions : ApiCall(caller, fn)
  \/ \E caller \in ApiCallers : ApiTimer(caller)
  \/ \E caller \in ApiCallers : \E response \in Responses(requests[caller].fn) : ApiResponse(caller, response)
  \/ ApiTick

\* time passes up to the end of the next sleep, however late that is
ApiSleep ==
  /\ Asleep # {}
  /\ \A caller \in Asleep : now < requests[caller].wake
  /\ \E t \in {requests[caller].wake : caller \in Asleep} :
       /\ \A caller \in Asleep : t <= requests[caller].wake
       /\ \A caller \in ApiCallers : requests[caller].pc = "fetch" => t <= requests[caller].wake
       /\ now' = t
  /\ UNCHANGED <<storage, quota, lastOp, setLog, apiVars, dcaVars, engineVars>>

\* one caller, whose calls follow one another, and sleeps that always end
Caller == CHOOSE caller \in ApiCallers : \A other \in ApiCallers : caller <= other
Settles == \E response \in Responses(requests[Caller].fn) : ApiResponse(Caller, response)
NextRetry ==
  \/ \E fn \in ApiFunctions : ApiCall(Caller, fn)
  \/ ApiTimer(Caller)
  \/ Settles
  \/ ApiTick
  \/ ApiSleep

(***************************************************************************)
(* Specifications: the cache alone and the calculator alone.  The part not *)
(* exercised stays as it starts.                                           *)
(***************************************************************************)
\* the cache on one of its media, and no call of calculateDCA
InitCache ==
  /\ \E m \in Media :
       /\ quota = m.quota
       /\ storage = [k \in {ForeignKey} |-> Garbage(m.foreign)]
  /\ now = 0
  /\ lastOp = NoCall
  /\ setLog = [k \in LogicalKeys |-> NotSet]
  /\ tz = 0
  /\ dcaPc = "idle"
  /\ dcaConfig = CHOOSE c \in Configs : TRUE
  /\ purchaseDates = <<>>
  /\ purchases = <<>>
  /\ adapterLog = <<>>
  /\ historical = Pending
  /\ rejection = ""
  /\ dcaOutcome = NoOutcome
  /\ calls = [call \in EngineCalls |-> IdleCall]
  /\ frames = [call \in EngineCalls |-> NoFrame]
  /\ lastRequestTime = 0
  /\ requests = [caller \in ApiCallers |-> IdleRequest]
  /\ fetchGap = NoGap
  /\ overlapped = FALSE
  /\ apiWrites = [k \in ApiKeys |-> NotSet]

\* the calculator in one of its time zones, and an unused cache
InitDCA ==
  /\ tz \in TimeZones
  /\ dcaPc = "idle"
  /\ dcaConfig = CHOOSE c \in Configs : TRUE
  /\ purchaseDates = <<>>
  /\ purchases = <<>>
  /\ adapterLog = <<>>
  /\ historical = Pending
  /\ rejection = ""
  /\ dcaOutcome = NoOutcome
  /\ calls = [call \in EngineCalls |-> IdleCall]
  /\ frames = [call \in EngineCalls |-> NoFrame]
  /\ lastRequestTime = 0
  /\ requests = [caller \in ApiCallers |-> IdleRequest]
  /\ fetchGap = NoGap
  /\ overlapped = FALSE
  /\ apiWrites = [k \in ApiKeys |-> NotSet]
  /\ quota = RoomyQuota
  /\ storage = [k \in {ForeignKey} |-> Garbage(Len("other-value"))]
  /\ now = 0
  /\ lastOp = NoCall
  /\ setLog = [k \in LogicalKeys |-> NotSet]

\* two calls of calculateDCA, in one of the time zones
InitEngine ==
  /\ tz \in TimeZones
  /\ calls = [call \in EngineCalls |-> IdleCall]
  /\ frames = [call \in EngineCalls |-> NoFrame]
  /\ lastRequestTime = 0
  /\ requests = [caller \in ApiCallers |-> IdleRequest]
  /\ fetchGap = NoGap
  /\ overlapped = FALSE
  /\ apiWrites = [k \in ApiKeys |-> NotSet]
  /\ dcaPc = "idle"
  /\ dcaConfig = CHOOSE c \in Configs : TRUE
  /\ purchaseDates = <<>>
  /\ purchases = <<>>
  /\ adapterLog = <<>>
  /\ historical = Pending
  /\ rejection = ""
  /\ dcaOutcome = NoOutcome
  /\ quota = RoomyQuota
  /\ storage = [k \in {ForeignKey} |-> Garbage(Len("other-value"))]
  /\ now = 0
  /\ lastOp = NoCall
  /\ setLog = [k \in LogicalKeys |-> NotSet]

\* the adapter on an empty cache, and nothing else
InitApi ==
  /\ lastRequestTime = 0
  /\ requests = [caller \in ApiCallers |-> IdleRequest]
  /\ fetchGap = NoGap
  /\ overlapped = FALSE
  /\ apiWrites = [k \in ApiKeys |-> NotSet]
  /\ now = ClockStart
  /\ quota = RoomyQuota
  /\ storage = [k \in {ForeignKey} |-> Garbage(Len("other-value"))]
  /\ lastOp = NoCall
  /\ setLog = [k \in LogicalKeys |-> NotSet]
  /\ calls = [call \in EngineCalls |-> IdleCall]
  /\ frames = [call \in EngineCalls |-> NoFrame]
  /\ tz = 0
  /\ dcaPc = "idle"
  /\ dcaConfig = CHOOSE c \in Configs : TRUE
  /\ purchaseDates = <<>>
  /\ purchases = <<>>
  /\ adapterLog = <<>>
  /\ historical = Pending
  /\ rejection = ""
  /\ dcaOutcome = NoOutcome

SpecCache == InitCache /\ [][NextCache]_vars
SpecDCA == InitDCA /\ [][NextDCA]_vars
SpecEngine == InitEngine /\ [][NextEngine]_vars
SpecApi == InitApi /\ [][NextApi]_vars
\* timers fire, a fetch settles and time passes
SpecRetry ==
  /\ InitApi /\ [][NextRetry]_vars
  /\ WF_vars(ApiTimer(Caller)) /\ WF_vars(Settles) /\ WF_vars(ApiSleep)

(***************************************************************************)
(* Properties of calculateDCA (checked under SpecDCA)                      *)
(***************************************************************************)
\* calendar order of two dates
After(a, b) == ToDay(a.y, a.m, a.d) > ToDay(b.y, b.m, b.d)

\* C1: every result calculateDCA returns has totalInvested = number of
\* purchases * investmentAmount, currentValue = totalQuantity * currentPrice,
\* profitLoss = currentValue - totalInvested, and totalPurchases = number of
\* purchases = number of generated purchase dates.
C1_ResultInvariants ==
  dcaPc = "returned" =>
    LET result == dcaOutcome.result
        metrics == result.metrics
    IN /\ metrics.totalInvested = Num(Len(result.purchases) * dcaConfig.investmentAmount)
       /\ metrics.currentValue = Times(metrics.totalQuantity, Num(result.currentPrice))
       /\ metrics.profitLoss = Minus(metrics.currentValue, metrics.totalInvested)
       /\ result.totalPurchases = Len(result.purchases)
       /\ Len(result.purchases) = Len(purchaseDates)

\* a result with several purchases at different prices, and a gain or loss
C1_Witness ==
  /\ dcaPc = "returned"
  /\ Len(dcaOutcome.result.purchases) >= 2
  /\ dcaOutcome.result.purchases[1].price # dcaOutcome.result.purchases[2].price
  /\ dcaOutcome.result.metrics.profitLoss # Num(0)
  /\ dcaOutcome.result.currentPrice # purchases[Len(purchases)].price

\* C2: a call of calculateDCA whose start date is after its end date, with
\* any of the four frequencies, fails with an error (before any price is
\* asked for) and returns no result.
C2_StartAfterEndFails ==
  (/\ dcaPc # "idle"
   /\ dcaConfig.frequency \in Frequencies
   /\ After(dcaConfig.startDate, finalEndDate(dcaConfig)))
  => /\ dcaPc = "failed"
     /\ dcaOutcome = Error("No purchase dates generated")
     /\ adapterLog = <<>>

\* a monthly config that starts after it ends has failed
C2_Witness ==
  /\ dcaPc = "failed"
  /\ dcaConfig.frequency = "monthly"
  /\ After(dcaConfig.startDate, finalEndDate(dcaConfig))
  /\ dcaOutcome = Error("No purchase dates generated")

(***************************************************************************)
(* Properties of the cache (checked under SpecCache)                       *)
(***************************************************************************)
\* the exported functions of cacheManager
CacheOps == {"set", "get", "isValid", "clearExpired", "clearAll", "getStats"}

\* the text set(key, value, ttlMs) at time t writes
WrittenText(value, t, ttlMs) == Stringify([value |-> value, timestamp |-> t, expiresAt |-> t + ttlMs])

\* the last call was set(k, v) with the default time-to-live and a
\* JSON-serializable v
AfterRoundTripSet ==
  /\ lastOp.op = "set"
  /\ lastOp.ttl = DEFAULT_TTL_MS
  /\ JSONSerializable(lastOp.value)

\* C3 as stated: get(k) right after set(k, v), v JSON-serializable, returns v.
C3_RoundTrip ==
  AfterRoundTripSet => get(storage, now, lastOp.key).ret = RetValue(lastOp.value)

\* C3, amended: get(k) right after a set(k, v) that returned true, v
\* JSON-serializable, returns v.
C3_RoundTripOfAcceptedSet ==
  AfterRoundTripSet /\ lastOp.ret = RetBool(TRUE)
    => get(storage, now, lastOp.key).ret = RetValue(lastOp.value)

\* the large value, written at the second attempt, is read back
C3_Witness ==
  /\ AfterRoundTripSet
  /\ lastOp.ret = RetBool(TRUE)
  /\ lastOp.value = StrBig
  /\ lastOp.attempts = 2
  /\ get(storage, now, lastOp.key).ret = RetValue(StrBig)

OldestRemoved(removed, survivors) ==
  \A i \in 1..Len(removed) : \A ts \in survivors : removed[i].timestamp <= ts

\* C5 as stated: getStats().utilizationPercent <= 100 whatever was set (the
\* bound can only fail once more than the capacity was written), and the
\* entries a set made room with are the oldest by fetch timestamp.
C5_UtilizationBounded ==
  /\ lastOp.op = "getStats" =>
       lastOp.ret.val.utilizationNum <= 100 * lastOp.ret.val.utilizationDen
  /\ lastOp.op = "set" =>
       /\ OldestRemoved(lastOp.preEvict, lastOp.preSurvivors)
       /\ OldestRemoved(lastOp.quotaEvict, lastOp.quotaSurvivors)

\* an eviction run down to target: removals in ascending timestamp order,
\* each made while the size was above the target, the oldest entries
\* removed, and the run ended at the target or with nothing left to remove
EvictionRun(removed, survivors, target, sizeAfter) ==
  /\ \A i, j \in 1..Len(removed) : i < j => removed[i].timestamp <= removed[j].timestamp
  /\ \A i \in 1..Len(removed) : removed[i].sizeBefore * target.den > target.num
  /\ \A i \in 1..(Len(removed) - 1) : removed[i + 1].sizeBefore < removed[i].sizeBefore
  /\ OldestRemoved(removed, survivors)
  /\ removed # <<>> => (sizeAfter * target.den <= target.num \/ survivors = {})

\* C6: an eviction run removes entries in ascending order of fetch
\* timestamp and stops as soon as the size is at most the target; the stored
\* timestamp of an entry is the time of its last set, whatever was read since.
C6_EvictionOrder ==
  /\ lastOp.op = "set" =>
       /\ EvictionRun(lastOp.preEvict, lastOp.preSurvivors,
                      [num |-> MAX_CACHE_SIZE_BYTES * 8, den |-> 10], lastOp.sizeAtWrite)
       /\ EvictionRun(lastOp.quotaEvict, lastOp.quotaSurvivors,
                      [num |-> MAX_CACHE_SIZE_BYTES, den |-> 2], lastOp.sizeAtRetry)
  /\ \A k \in LogicalKeys :
       setLog[k].present => Parse(storage[getCacheKey(k)]).timestamp = setLog[k].at

\* a run before the write removed the oldest entry, left younger ones and
\* ended at the target
C6_Witness ==
  /\ lastOp.op = "set"
  /\ Len(lastOp.preEvict) = 1
  /\ \E ts \in lastOp.preSurvivors : lastOp.preEvict[1].timestamp < ts
  /\ lastOp.sizeAtWrite * 10 <= MAX_CACHE_SIZE_BYTES * 8

\* the size at which set evicts before writing: 0.8 * capacity or more
AtThreshold(size) == size * 10 >= MAX_CACHE_SIZE_BYTES * 8

\* a step that is a call of set
SetStep == lastOp'.op = "set"

\* entries of other keys are as they were before the step
OthersKept ==
  \A k \in PrefixedKeys(storage) \ {getCacheKey(lastOp'.key)} :
    k \in DOMAIN storage' /\ storage'[k] = storage[k]

\* the size is at most 0.8 * capacity when set writes after being called at
\* the threshold or above
ReducedAtWrite ==
  lastOp.op = "set" /\ AtThreshold(lastOp.sizeAtCall)
    => lastOp.sizeAtWrite * 10 <= MAX_CACHE_SIZE_BYTES * 8

\* C7 as stated: called at 0.8 * capacity or above, set writes with the size
\* reduced to at most 0.8 * capacity; called below it, a set that succeeds
\* removes no entry of another key.
C7_ThresholdEviction ==
  /\ []ReducedAtWrite
  /\ [][SetStep /\ ~AtThreshold(getCacheSize(storage)) /\ lastOp'.ret = RetBool(TRUE)
          => OthersKept]_vars

\* C7, amended: called below the threshold, a set whose first write the
\* medium accepts removes no entry of another key.
C7_ThresholdEvictionFirstWrite ==
  /\ []ReducedAtWrite
  /\ [][SetStep /\ ~AtThreshold(getCacheSize(storage)) /\ lastOp'.ret = RetBool(TRUE)
          /\ lastOp'.attempts = 1
          => OthersKept]_vars

\* set was called above the threshold and evicted before writing; the write
\* was accepted at once
C7_Witness ==
  /\ lastOp.op = "set"
  /\ AtThreshold(lastOp.sizeAtCall)
  /\ lastOp.preEvict # <<>>
  /\ lastOp.attempts = 1
  /\ lastOp.ret = RetBool(TRUE)
  /\ Cardinality(PrefixedKeys(storage)) >= 2

\* C8: when the medium rejects the write, set evicts oldest-first down to
\* capacity / 2 and writes once more; it returns true when a write was
\* accepted (the entry is then stored) and false when none was, and it makes
\* at most two attempts.
C8_QuotaRetry ==
  lastOp.op = "set" =>
    LET cacheKey == getCacheKey(lastOp.key)
        text == WrittenText(lastOp.value, now, lastOp.ttl)
    IN /\ lastOp.attempts \in 0..2
       /\ lastOp.attempts = 2 =>
            /\ EvictionRun(lastOp.quotaEvict, lastOp.quotaSurvivors,
                           [num |-> MAX_CACHE_SIZE_BYTES, den |-> 2], lastOp.sizeAtRetry)
            /\ lastOp.sizeAtRetry * 2 <= MAX_CACHE_SIZE_BYTES
       /\ lastOp.attempts < 2 => lastOp.quotaEvict = <<>>
       /\ lastOp.ret \in {RetBool(TRUE), RetBool(FALSE)}
       /\ lastOp.ret = RetBool(TRUE) => cacheKey \in DOMAIN storage /\ storage[cacheKey] = text
       /\ lastOp.ret = RetBool(FALSE) =>
            \/ lastOp.attempts = 0 /\ StringifyThrows(lastOp.value)
            \/ lastOp.attempts = 2 /\ setItem(storage, quota, cacheKey, text).throws

\* the second attempt was accepted after an eviction that removed an entry
C8_Witness ==
  /\ lastOp.op = "set"
  /\ lastOp.attempts = 2
  /\ lastOp.quotaEvict # <<>>
  /\ lastOp.ret = RetBool(TRUE)

\* C9: set ends by returning true or false and get by returning a value or
\* null, whatever the medium holds and whether or not it accepts writes.
C9_NoExceptionLeaves ==
  /\ lastOp.op = "set" => lastOp.ret.kind = "boolean"
  /\ lastOp.op = "get" => lastOp.ret.kind \in {"value", "null"}

\* get on an entry that is not JSON returned null
C9_Witness ==
  /\ lastOp.op = "get"
  /\ getCacheKey(lastOp.key) \in DOMAIN storage
  /\ ParseThrows(storage[getCacheKey(lastOp.key)])
  /\ lastOp.ret = RetNull

\* C10: a step of any cache operation writes and removes only keys that
\* start with CACHE_PREFIX; the other keys and their texts are unchanged.
C10_KeyIsolation ==
  [][lastOp'.op \in CacheOps =>
       \A key \in (DOMAIN storage) \cup (DOMAIN storage') :
         ~startsWith(key, CACHE_PREFIX) =>
           /\ key \in DOMAIN storage
           /\ key \in DOMAIN storage'
           /\ storage'[key] = storage[key]]_vars

\* clearAll removed several entries of the cache and the other
\* application's key is still there
C10_Witness ==
  /\ lastOp.op = "clearAll"
  /\ lastOp.ret.val >= 2
  /\ PrefixedKeys(storage) = {}
  /\ ForeignKey \in DOMAIN storage

\* an owned key whose text parses and has not expired at time t
Unexpired(st, t, k) == ~ParseThrows(st[k]) /\ t <= Parse(st[k]).expiresAt

\* C11: after clearAll no key with CACHE_PREFIX remains, whatever its text,
\* and clearAll returns the number of prefixed keys there were.
C11_ClearAllRemovesAll ==
  [][lastOp'.op = "clearAll" =>
       /\ PrefixedKeys(storage') = {}
       /\ lastOp'.ret = RetNumber(Cardinality(PrefixedKeys(storage)))]_vars

\* C12: after clearExpired every owned entry left parses and has
\* now <= expiresAt, every such entry there was is left as it was, and
\* clearExpired returns the number of entries it removed.
C12_ClearExpiredRemovesStale ==
  [][lastOp'.op = "clearExpired" =>
       /\ \A k \in PrefixedKeys(storage') : Unexpired(storage', now, k)
       /\ \A k \in PrefixedKeys(storage) :
            Unexpired(storage, now, k) => k \in DOMAIN storage' /\ storage'[k] = storage[k]
       /\ lastOp'.ret = RetNumber(Cardinality(PrefixedKeys(storage))
                                  - Cardinality(PrefixedKeys(storage')))]_vars

\* C13: get(k) returns null when k is absent, when its text does not parse
\* and when now > expiresAt, and the stored value otherwise; it removes the
\* entry of k in the expired case and changes nothing in every other case.
C13_GetFrame ==
  [][lastOp'.op = "get" =>
       LET k == getCacheKey(lastOp'.key)
       IN IF k \notin DOMAIN storage \/ ParseThrows(storage[k])
          THEN lastOp'.ret = RetNull /\ storage' = storage
          ELSE IF now > Parse(storage[k]).expiresAt
          THEN lastOp'.ret = RetNull /\ storage' = removeItem(storage, k)
          ELSE lastOp'.ret = RetValue(Parse(storage[k]).value) /\ storage' = storage]_vars

\* get returned null and took its expired entry out of the medium, leaving
\* the other entries
C13_Witness ==
  /\ lastOp.op = "get"
  /\ lastOp.ret = RetNull
  /\ getCacheKey(lastOp.key) \notin DOMAIN storage
  /\ lastOp.sizeAtCall > getCacheSize(storage)
  /\ PrefixedKeys(storage) # {}

DayOf(iso) == ToDay(iso.y, iso.m, iso.d)

\* the period, in days, of the frequencies that have one
PeriodOf(frequency) ==
  CASE frequency = "daily" -> 1
    [] frequency = "weekly" -> 7
    [] frequency = "biweekly" -> 14

\* C15: for daily, weekly and biweekly the generated dates are exactly
\* start + i * p (i = 0, 1, ...) up to and including end: the first is
\* start, and there is none when start is after end.
C15_FixedPeriodSchedule ==
  (dcaPc # "idle" /\ dcaConfig.frequency \in {"daily", "weekly", "biweekly"}) =>
    LET p == PeriodOf(dcaConfig.frequency)
        start == DayOf(dcaConfig.startDate)
        end == DayOf(finalEndDate(dcaConfig))
    IN IF start > end
       THEN purchaseDates = <<>> /\ dcaOutcome = Error("No purchase dates generated")
       ELSE purchaseDates = [i \in 1..((end - start) \div p + 1) |-> start + (i - 1) * p]

\* the last day of the month after that of the calendar date c
EndOfNextMonth(c) ==
  IF c.m = 12 THEN Date(c.y + 1, 1, 31) ELSE Date(c.y, c.m + 1, DaysInMonth(c.y, c.m + 1))

\* C16: in a monthly schedule, a date whose day of the month does not exist
\* in the following month is followed by the last day of that month.
C16_MonthlyClamps ==
  (dcaPc # "idle" /\ dcaConfig.frequency = "monthly") =>
    \A i \in 1..(Len(purchaseDates) - 1) :
      LET c == FromDay(purchaseDates[i])
      IN c.d > EndOfNextMonth(c).d => FromDay(purchaseDates[i + 1]) = EndOfNextMonth(c)

\* C17: with a frequency that is none of the four, the call fails with
\* 'Invalid frequency', whatever the dates.
C17_InvalidFrequencyFails ==
  (dcaPc # "idle" /\ dcaConfig.frequency \notin Frequencies) =>
    dcaPc = "failed" /\ dcaOutcome = Error("Invalid frequency")

\* distance of point j of a series from a target
Distance(prices, j, target) == Abs(prices[j].timestamp - target)

\* the first point of a non-empty series at the least distance from target
Nearest(prices, target) ==
  CHOOSE j \in 1..Len(prices) :
    /\ \A k \in 1..Len(prices) : Distance(prices, j, target) <= Distance(prices, k, target)
    /\ \A k \in 1..(j - 1) : Distance(prices, k, target) > Distance(prices, j, target)

C19_NonEmptySeriesResolves ==
  (historical.resolved /\ historical.prices # <<>>) =>
    ~(dcaPc = "failed" /\ dcaOutcome = Error("No price data found"))

\* C20: on an empty series the call fails with 'No price data found' and
\* returns no result.
C20_EmptySeriesFails ==
  (historical.resolved /\ historical.prices = <<>>) =>
    dcaPc = "failed" /\ dcaOutcome = Error("No price data found")

\* a call with several purchase dates failed on an empty series, having
\* asked for no current price
C20_Witness ==
  /\ historical = Resolved(<<>>)
  /\ Len(purchaseDates) >= 2
  /\ dcaPc = "failed"
  /\ dcaOutcome = Error("No price data found")
  /\ Len(adapterLog) = 1

(***************************************************************************)
(* Properties of the running series, of failures and of validation         *)
(* (checked under SpecDCA)                                                 *)
(***************************************************************************)
\* the quantities of the first i purchases of a result, added in order
RECURSIVE QuantityUpTo(_, _)
QuantityUpTo(ps, i) == IF i = 0 THEN Num(0) ELSE Plus(QuantityUpTo(ps, i - 1), ps[i].quantity)

C22_FetchFailurePropagates ==
  rejection # "" => dcaPc = "failed" /\ dcaOutcome = Error(rejection)

\* getCurrentPrice has rejected after the purchases were computed
C22_Witness ==
  /\ rejection = "Failed to fetch current price"
  /\ Len(purchases) >= 2
  /\ dcaPc = "failed"

\* what the specification calls a configuration error
ConfigurationError(config) ==
  \/ After(config.startDate, finalEndDate(config))
  \/ config.frequency \notin Frequencies
  \/ config.investmentAmount <= 0

\* C23: calculateDCA detects every configuration error (start after end,
\* unrecognized frequency, investmentAmount zero or negative) and fails
\* before it calls getHistoricalPrices or getCurrentPrice; no adapter call
\* is ever made for a config with investmentAmount <= 0.
C23_ConfigErrorsBeforeFetch ==
  (dcaPc # "idle" /\ ConfigurationError(dcaConfig)) =>
    dcaPc = "failed" /\ adapterLog = <<>>

(***************************************************************************)
(* Reentrancy of calculateDCA (checked under SpecEngine)                   *)
(***************************************************************************)
\* what a call of calculateDCA that runs alone comes to, from its config and
\* from what its two adapter calls answered: historical is what
\* getHistoricalPrices resolved to, rejection the error of the adapter call
\* that rejected, currentPrice what getCurrentPrice resolved to
Alone(config, zone, historicalReply, rejected, currentPrice) ==
  LET g == generatePurchaseDates(config.startDate, finalEndDate(config), config.frequency, zone)
      c == calculatePurchases(g.dates, historicalReply.prices, config.investmentAmount, zone)
  IN IF g.throws THEN Error("Invalid frequency")
     ELSE IF Len(g.dates) = 0 THEN Error("No purchase dates generated")
     ELSE IF ~historicalReply.resolved THEN Error(rejected)
     ELSE IF c.throws THEN Error("No price data found")
     ELSE IF rejected # "" THEN Error(rejected)
     ELSE Returned(dcaResults(config, finalEndDate(config),
                     calculateMetrics(c.purchases, currentPrice, config.investmentAmount),
                     currentPrice))

\* C26: the result of a calculateDCA call is a function of its config and of
\* what its own two adapter calls returned: two calls interleaved at their
\* awaits come to what each comes to alone with the same adapter replies.
C26_Reentrant ==
  \A call \in EngineCalls :
    calls[call].pc \in {"returned", "failed"} =>
      calls[call].outcome = Alone(calls[call].config, tz, calls[call].historical,
                                  calls[call].rejection, calls[call].currentPrice)

\* both calls have returned, each was suspended while the other ran, and
\* they differ in their amount, in their series and in their current price
C26_Witness ==
  /\ \A call \in EngineCalls : calls[call].pc = "returned" /\ calls[call].interleaved
  /\ calls[1].config.investmentAmount # calls[2].config.investmentAmount
  /\ calls[1].historical # calls[2].historical
  /\ calls[1].currentPrice # calls[2].currentPrice

(***************************************************************************)
(* Properties of the adapter (checked under SpecApi)                       *)
(***************************************************************************)
\* C24: every adapter call reads the cache before any network request, and
\* when the cache holds an unexpired entry for the call's key the call
\* returns the cached value and issues no network request; so a repeated
\* getHistoricalPrices(a, f, t) after a successful one, while the entry is
\* present and unexpired, performs no fetch.
C24_CacheBeforeNetwork ==
  \A caller \in ApiCallers :
    requests[caller].held.present =>
      /\ requests[caller].pc = "done"
      /\ requests[caller].ok
      /\ requests[caller].value = requests[caller].held.value
      /\ requests[caller].fetches = 0

\* a second getHistoricalPrices has returned the prices the first one cached
C24_Witness ==
  \E caller \in ApiCallers :
    /\ requests[caller].fn = "getHistoricalPrices"
    /\ requests[caller].held.present
    /\ requests[caller].pc = "done"
    /\ apiWrites[cacheKeyOf("getHistoricalPrices")].present
    /\ requests[caller].value = apiWrites[cacheKeyOf("getHistoricalPrices")].value

\* C25: under every interleaving of concurrent adapter calls (a call
\* suspends only at its network and timer awaits, never inside a cache
\* operation) the entries are never corrupted: at all times there is at most
\* one stored entry per key (the medium maps a key to one text), and every
\* stored entry is a complete {value, timestamp, expiresAt} record written
\* by exactly one set.
C25_EntriesIntact ==
  \A k \in PrefixedKeys(storage) :
    /\ Cardinality({key \in ApiKeys : getCacheKey(key) = k}) = 1
    /\ \A key \in ApiKeys :
         getCacheKey(key) = k =>
           /\ apiWrites[key].present
           /\ storage[k] = WrittenText(apiWrites[key].value, apiWrites[key].at, apiWrites[key].ttl)

\* two calls for one key were in flight together, both fetched and both
\* wrote the entry, the second over the first
C25_Witness ==
  /\ overlapped
  /\ \A caller \in ApiCallers : requests[caller].pc = "done" /\ requests[caller].sets = 1
  /\ requests[1].fn = requests[2].fn
  /\ apiWrites[cacheKeyOf(requests[1].fn)].present
  /\ apiWrites[cacheKeyOf(requests[1].fn)].at > lastRequestTime

\* C27: for adapter calls made one after another (each awaited before the
\* next starts), any two successive network requests, retry attempts
\* included, are issued at least RATE_LIMIT_DELAY_MS = 1200 ms apart.
C27_SequentialSpacing ==
  ~overlapped => (fetchGap = NoGap \/ fetchGap >= RATE_LIMIT_DELAY_MS)

\* calls were made one after another, and the last one, whose first fetch
\* failed, has called fetch again: this fetch and the one before it have a
\* time between them
C27_Witness ==
  /\ ~overlapped
  /\ fetchGap # NoGap
  /\ \E caller \in ApiCallers :
       /\ requests[caller].calls >= 2
       /\ requests[caller].pc = "fetch"
       /\ requests[caller].fetches = 2

\* C29: when two or more adapter calls are in flight together, the shared
\* lastRequestTime still keeps their network requests spaced: no two calls
\* of fetch start less than 1200 ms apart, even when both calls read
\* lastRequestTime before either has updated it.
C29_ConcurrentSpacing ==
  fetchGap = NoGap \/ fetchGap >= RATE_LIMIT_DELAY_MS

\* C28: a request that receives HTTP 429 while retries remain is attempted
\* again after RETRY_DELAY_MS, and the first successful response is returned;
\* every makeRequest call terminates after at most MAX_RETRIES + 1 = 4
\* network attempts in all, whatever mix of 429 responses, other non-OK
\* responses and thrown network errors occurs, failing with an error once
\* the retries are exhausted.
Successful(response) == response.kind = "response" /\ ResponseOk(response) /\ response.parses
RetryStep ==
  \A caller \in ApiCallers :
    LET request == requests[caller]
        after == requests'[caller]
    IN /\ (request.pc = "fetch" /\ after.pc # "fetch") =>
            /\ after.response.kind # "none"
            /\ (after.response.status = HTTP_STATUS_TOO_MANY_REQUESTS /\ request.retries > 0) =>
                 after.pc = "retryDelay" /\ after.wake = now + RETRY_DELAY_MS
            /\ Successful(after.response) =>
                 after.pc = "done" /\ (after.ok => after.value = afterData(request.fn, after.response.data).value)
            /\ (~Successful(after.response) /\ request.retries = 0) =>
                 after.pc = "done" /\ ~after.ok /\ after.error # ""
       /\ (request.pc = "retryDelay" /\ after.pc # "retryDelay") =>
            /\ now >= request.wake
            /\ after.pc \in {"rateLimit", "fetch"}
            /\ after.retries = request.retries - 1
AttemptsBounded ==
  \A caller \in ApiCallers :
    /\ requests[caller].fetches <= MAX_RETRIES + 1
    /\ requests[caller].pc = "fetch" => requests[caller].fetches = MAX_RETRIES - requests[caller].retries + 1
WellFormed(fn, data) ==
  IF fn = "getHistoricalPrices"
  THEN data.hasPrices /\ data.isArray /\ \A i \in 1..Len(data.prices) : data.prices[i].priced
  ELSE data.price # 0
FailedCallSetsNothing ==
  \A caller \in ApiCallers :
    (requests[caller].pc = "done" /\ ~requests[caller].ok) => requests[caller].sets = 0
C30_SetOnlyAfterWellFormed ==
  /\ FailedCallSetsNothing
  /\ \A caller \in ApiCallers :
       (requests[caller].pc = "done" /\ requests[caller].response.kind # "none") =>
         IF Successful(requests[caller].response)
            /\ WellFormed(requests[caller].fn, requests[caller].response.data)
         THEN requests[caller].ok
         ELSE ~requests[caller].ok /\ requests[caller].error # "" /\ requests[caller].sets = 0

====
